---- MODULE Spec2Model ----
(***************************************************************************)
(* A model of the online GLM fitting engine of improv-sketches:            *)
(*   src/GLM/glm_jax.py   GLMJax and GLMJaxSynthetic (the basic variant    *)
(*                        and its streaming controller)                    *)
(*   src/LNP/glm_jax.py   GLMJax (the LNP variant)                         *)
(* Arrays are modelled with their shapes and their cells, so that numpy's  *)
(* slicing, concatenation, broadcasting and matrix product can fail the    *)
(* way they fail in the program.  Indices are 0-based, as in the source.   *)
(***************************************************************************)
EXTENDS Integers, Sequences, FiniteSets, TLC

(***************************************************************************)
(* Bounds of the model.                                                    *)
(***************************************************************************)
\* p['M_lim']: the fixed time-window capacity the model is configured with.
M_lim == 4
\* p['dh']: the history length.
dh == 2
\* p['ds']: the stimulus dimension.
ds == 1
\* The largest number of rows of a supplied y (two doublings from N_lim = 1).
MaxN == 3
\* fit/ll/grad calls are cut off once iter reaches this value.
MaxIter == 5
\* The width T of the dataset handed to the streaming controller.
T == 5
\* The size of the batch of random start offsets (10000 in the program,
\* scaled down so that a regeneration happens within MaxIter calls).
BatchSize == 2

Max(a, b) == IF a >= b THEN a ELSE b
Min(a, b) == IF a <= b THEN a ELSE b

(***************************************************************************)
(* numpy / jax.numpy arrays: two-dimensional, a shape (r, c) and cells v.  *)
(* An operation that raises (shape mismatch) yields Err, and Err           *)
(* propagates through every operation applied to it.                       *)
(***************************************************************************)
Err == [r |-> -1, c |-> -1, v |-> [p \in {} |-> 0]]
IsErr(A) == A.r = -1

Mat(r, c, F(_, _)) ==
    [r |-> r, c |-> c, v |-> [p \in (0 .. r - 1) \X (0 .. c - 1) |-> F(p[1], p[2])]]

At(A, i, j) == A.v[<<i, j>>]

ConstCell0(i, j) == 0
ConstCell1(i, j) == 1
\* onp.zeros((r, c)); a negative dimension raises.
Zeros(r, c) == IF r < 0 \/ c < 0 THEN Err ELSE Mat(r, c, ConstCell0)
\* onp.ones((r, c))
Ones(r, c) == IF r < 0 \/ c < 0 THEN Err ELSE Mat(r, c, ConstCell1)

\* A Python slice bound k on an axis of length n: negative bounds count from
\* the end, and every bound is clipped to 0 .. n.
PyIdx(k, n) == IF k < 0 THEN Max(k + n, 0) ELSE Min(k, n)

\* A[:, lo:hi]
SliceCols(A, lo, hi) ==
    IF IsErr(A) THEN Err
    ELSE LET a == PyIdx(lo, A.c)
             b == PyIdx(hi, A.c)
             n == Max(b - a, 0)
         IN  [r |-> A.r, c |-> n,
              v |-> [p \in (0 .. A.r - 1) \X (0 .. n - 1) |-> At(A, p[1], a + p[2])]]

\* A[lo:hi, :]
SliceRows(A, lo, hi) ==
    IF IsErr(A) THEN Err
    ELSE LET a == PyIdx(lo, A.r)
             b == PyIdx(hi, A.r)
             n == Max(b - a, 0)
         IN  [r |-> n, c |-> A.c,
              v |-> [p \in (0 .. n - 1) \X (0 .. A.c - 1) |-> At(A, a + p[1], p[2])]]

\* concatenate((A, B), axis=1), np.hstack((A, B)): the row counts must agree.
ConcatCols(A, B) ==
    IF IsErr(A) \/ IsErr(B) \/ A.r # B.r THEN Err
    ELSE [r |-> A.r, c |-> A.c + B.c,
          v |-> [p \in (0 .. A.r - 1) \X (0 .. A.c + B.c - 1) |->
                    IF p[2] < A.c THEN At(A, p[1], p[2]) ELSE At(B, p[1], p[2] - A.c)]]

\* concatenate((A, B), axis=0): the column counts must agree.
ConcatRows(A, B) ==
    IF IsErr(A) \/ IsErr(B) \/ A.c # B.c THEN Err
    ELSE [r |-> A.r + B.r, c |-> A.c,
          v |-> [p \in (0 .. A.r + B.r - 1) \X (0 .. A.c - 1) |->
                    IF p[1] < A.r THEN At(A, p[1], p[2]) ELSE At(B, p[1] - A.r, p[2])]]

\* Two axis lengths broadcast together when they are equal or one of them is 1.
BDimOk(a, b) == a = b \/ a = 1 \/ b = 1
BDim(a, b) == IF a = 1 THEN b ELSE a
\* The cell of A that broadcasting puts at (i, j).
BAt(A, i, j) == At(A, IF A.r = 1 THEN 0 ELSE i, IF A.c = 1 THEN 0 ELSE j)

\* A + B with broadcasting
Add(A, B) ==
    IF IsErr(A) \/ IsErr(B) \/ ~BDimOk(A.r, B.r) \/ ~BDimOk(A.c, B.c) THEN Err
    ELSE LET r == BDim(A.r, B.r)
             c == BDim(A.c, B.c)
         IN  [r |-> r, c |-> c,
              v |-> [p \in (0 .. r - 1) \X (0 .. c - 1) |->
                        BAt(A, p[1], p[2]) + BAt(B, p[1], p[2])]]

\* A * B, elementwise with broadcasting
Mul(A, B) ==
    IF IsErr(A) \/ IsErr(B) \/ ~BDimOk(A.r, B.r) \/ ~BDimOk(A.c, B.c) THEN Err
    ELSE LET r == BDim(A.r, B.r)
             c == BDim(A.c, B.c)
         IN  [r |-> r, c |-> c,
              v |-> [p \in (0 .. r - 1) \X (0 .. c - 1) |->
                        BAt(A, p[1], p[2]) * BAt(B, p[1], p[2])]]

RECURSIVE DotFrom(_, _, _, _, _)
\* sum over k in from .. A.c - 1 of A[i, k] * B[k, j]
DotFrom(A, B, i, j, from) ==
    IF from >= A.c THEN 0
    ELSE At(A, i, from) * At(B, from, j) + DotFrom(A, B, i, j, from + 1)

\* A @ B: the inner dimensions must agree.
MatMul(A, B) ==
    IF IsErr(A) \/ IsErr(B) \/ A.c # B.r THEN Err
    ELSE [r |-> A.r, c |-> B.c,
          v |-> [p \in (0 .. A.r - 1) \X (0 .. B.c - 1) |-> DotFrom(A, B, p[1], p[2], 0)]]

\* The value a float32 buffer keeps of an integer x: exact up to 2^24 in
\* magnitude, rounded to an even integer beyond it.
F32(x) == IF x \in -16777216 .. 16777216 THEN x ELSE 2 * (x \div 2)

\* dst[:h, :w] = src, dst a float32 buffer.  The target block is clipped to
\* dst's shape; src must broadcast to the block, else numpy raises
\* "could not broadcast input array".
SetBlock(dst, h, w, src) ==
    IF IsErr(dst) \/ IsErr(src) THEN Err
    ELSE LET bh == PyIdx(h, dst.r)
             bw == PyIdx(w, dst.c)
         IN  IF ~(src.r = bh \/ src.r = 1) \/ ~(src.c = bw \/ src.c = 1) THEN Err
             ELSE [r |-> dst.r, c |-> dst.c,
                   v |-> [p \in (0 .. dst.r - 1) \X (0 .. dst.c - 1) |->
                             IF p[1] < bh /\ p[2] < bw
                             THEN F32(BAt(src, p[1], p[2]))
                             ELSE At(dst, p[1], p[2])]]

RECURSIVE SumFrom(_, _)
\* The sum of the cells of A whose index is in P.
SumFrom(A, P) ==
    IF P = {} THEN 0
    ELSE LET p == CHOOSE q \in P : TRUE
         IN  A.v[p] + SumFrom(A, P \ {p})
\* np.sum(A)
Sum(A) == SumFrom(A, DOMAIN A.v)


(***************************************************************************)
(* The parameter store and the optimizer.  The optimizer and the           *)
(* automatic differentiation are library code (jax.experimental.optimizers,*)
(* jax.grad): the optimizer state is modelled as the parameters it holds   *)
(* plus acc, the number of updates folded into its accumulators since      *)
(* opt_init; a gradient is modelled by its shape (that of the parameters)  *)
(* with unit cells.                                                        *)
(***************************************************************************)
\* None, for an argument that was not supplied.
None == [r |-> -2, c |-> -2, v |-> [p \in {} |-> 0]]
IsNone(A) == A.r = -2

\* self.opt_init(theta)
opt_init(th) == [params |-> th, acc |-> 0]
\* self.get_params(state)
get_params(st) == st.params

Minus(A, B) == Add(A, Mul(Mat(1, 1, LAMBDA i, j : -1), B))

\* self.opt_update(i, grad, state): one first-order step.
opt_update(i, g, st) ==
    [params |-> [w |-> Minus(st.params.w, g.w), h |-> Minus(st.params.h, g.h),
                 k |-> Minus(st.params.k, g.k), b |-> Minus(st.params.b, g.b)],
     acc |-> st.acc + 1]

\* IncreaseThetaSize that leaves the bias b at its old size.
IncreaseThetaSize_KeepsB(self) ==
    LET N == self.params.N_lim
        th == get_params(self.theta_)
        w1 == ConcatCols(th.w, Zeros(N, N))
        w2 == ConcatRows(w1, Zeros(N, 2 * N))
        h2 == ConcatRows(th.h, Zeros(N, self.params.dh))
        k2 == ConcatRows(th.k, Zeros(N, self.params.ds))
    IN  [self EXCEPT !.params.N_lim = 2 * N,
                     !.theta_ = opt_init([w |-> w2, h |-> h2, k |-> k2, b |-> th.b])]

\* IncreaseThetaSize that keeps the optimizer's accumulators: the grown
\* parameters are put into the old state instead of a new opt_init state.
IncreaseThetaSize_KeepsAccumulators(self) ==
    LET N == self.params.N_lim
        th == get_params(self.theta_)
        w1 == ConcatCols(th.w, Zeros(N, N))
        w2 == ConcatRows(w1, Zeros(N, 2 * N))
        h2 == ConcatRows(th.h, Zeros(N, self.params.dh))
        b2 == ConcatRows(th.b, Zeros(N, 1))
        k2 == ConcatRows(th.k, Zeros(N, self.params.ds))
    IN  [self EXCEPT !.params.N_lim = 2 * N,
                     !.theta_ = [params |-> [w |-> w2, h |-> h2, k |-> k2, b |-> b2],
                                 acc |-> self.theta_.acc]]

\* IncreaseThetaSize with the zero blocks concatenated before the old rows
\* instead of after them.
IncreaseThetaSize_ZerosFirst(self) ==
    LET N == self.params.N_lim
        th == get_params(self.theta_)
        w1 == ConcatCols(th.w, Zeros(N, N))
        w2 == ConcatRows(Zeros(N, 2 * N), w1)
        h2 == ConcatRows(Zeros(N, self.params.dh), th.h)
        b2 == ConcatRows(Zeros(N, 1), th.b)
        k2 == ConcatRows(Zeros(N, self.params.ds), th.k)
    IN  [self EXCEPT !.params.N_lim = 2 * N,
                     !.theta_ = opt_init([w |-> w2, h |-> h2, k |-> k2, b |-> b2])]

\* GLMJax._increase_theta_size: doubles the neuron capacity.  self is the
\* record of the object's fields.
IncreaseThetaSize(self) ==
    LET N == self.params.N_lim
        th == get_params(self.theta_)
        w1 == ConcatCols(th.w, Zeros(N, N))
        w2 == ConcatRows(w1, Zeros(N, 2 * N))
        h2 == ConcatRows(th.h, Zeros(N, self.params.dh))
        b2 == ConcatRows(th.b, Zeros(N, 1))
        k2 == ConcatRows(th.k, Zeros(N, self.params.ds))
    IN  [self EXCEPT !.params.N_lim = 2 * N,
                     !.theta_ = opt_init([w |-> w2, h |-> h2, k |-> k2, b |-> b2])]

\* GrowWhile with an if in place of the while: one doubling at most.
GrowWhile_Once(self, rows) ==
    IF rows > self.params.N_lim THEN IncreaseThetaSize(self) ELSE self

RECURSIVE GrowWhile(_, _)
\* while y.shape[0] > N_lim: self._increase_theta_size(); N_lim = self.params['N_lim']
GrowWhile(self, rows) ==
    IF rows > self.params.N_lim THEN GrowWhile(IncreaseThetaSize(self), rows) ELSE self

\* What _check_arrays hands back: the object's fields after it, the exception
\* it raised ("none" when it returned) and the tuple it returned.
Checked(self, err, m, n, y, s, indicator) ==
    [self |-> self, err |-> err, m |-> m, n |-> n, y |-> y, s |-> s,
     indicator |-> indicator]

\* _check_arrays, its end: the width check and the return.
WidthCheck(self, y, s, indicator) ==
    IF y.c > self.params.M_lim
    THEN Checked(self, "too_wide", 0, 0, y, s, indicator)
    ELSE Checked(self, "none", self.current_M, self.current_N, y, s, indicator)

\* _check_arrays, once the three padded buffers y_, s_, indicator_ are
\* written: a block assignment that cannot broadcast raises.
Padded(self, y_, s_, i_) ==
    IF IsErr(y_) \/ IsErr(s_) \/ IsErr(i_)
    THEN Checked(self, "broadcast", 0, 0, y_, s_, i_)
    ELSE WidthCheck(self, y_, s_, i_)

\* PadGLM with the indicator buffer created as all ones instead of zeros.
PadGLM_OnesBuffer(self, y, s, indicator) ==
    IF y.r = self.params.N_lim /\ y.c = self.params.M_lim
    THEN WidthCheck(self, y, s, indicator)
    ELSE Padded(self,
                SetBlock(Zeros(self.params.N_lim, self.params.M_lim), y.r, y.c, y),
                SetBlock(Zeros(self.params.ds, self.params.M_lim), s.r, s.c, s),
                SetBlock(Ones(self.params.N_lim, self.params.M_lim), y.r, y.c,
                         indicator))

\* _check_arrays, after the growth loop: the data are embedded into zero
\* buffers unless y already has the shape (N_lim, M_lim).
PadGLM(self, y, s, indicator) ==
    IF y.r = self.params.N_lim /\ y.c = self.params.M_lim
    THEN WidthCheck(self, y, s, indicator)
    ELSE Padded(self,
                SetBlock(Zeros(self.params.N_lim, self.params.M_lim), y.r, y.c, y),
                SetBlock(Zeros(self.params.ds, self.params.M_lim), s.r, s.c, s),
                SetBlock(Zeros(self.params.N_lim, self.params.M_lim), y.r, y.c,
                         indicator))

\* GLMJax._check_arrays of the basic variant (src/GLM/glm_jax.py).
CheckArraysGLM(self, y, s, indicator) ==
    IF y.c # s.c \/ s.r # self.params.ds
    THEN Checked(self, "assert", 0, 0, y, s, indicator)
    ELSE PadGLM(GrowWhile([self EXCEPT !.current_N = y.r, !.current_M = y.c], y.r),
                y, s, IF IsNone(indicator) THEN Ones(y.r, y.c) ELSE indicator)

\* WidthCheckLNP with iter += 1 placed before the width check.
WidthCheckLNP_CountsFirst(self, y, s) ==
    IF y.c > self.params.M_lim
    THEN Checked([self EXCEPT !.iter = self.iter + 1], "too_wide", 0, 0, y, s, None)
    ELSE Checked([self EXCEPT !.iter = self.iter + 1], "none",
                 self.current_M * self.current_N, 0, y, s, None)

\* _check_arrays of the LNP variant, its end: the width check, iter += 1 and
\* the return.
WidthCheckLNP(self, y, s) ==
    IF y.c > self.params.M_lim
    THEN Checked(self, "too_wide", 0, 0, y, s, None)
    ELSE Checked([self EXCEPT !.iter = self.iter + 1], "none",
                 self.current_M * self.current_N, 0, y, s, None)

\* _check_arrays of the LNP variant, the column padding of y and s.
PadColsLNP(self, y, s) ==
    IF y.c < self.params.M_lim
    THEN WidthCheckLNP(self,
             ConcatCols(y, Zeros(self.params.N_lim, self.params.M_lim - y.c)),
             ConcatCols(s, Zeros(self.params.ds, self.params.M_lim - y.c)))
    ELSE WidthCheckLNP(self, y, s)

\* _check_arrays of the LNP variant, the row padding of y.
PadRowsLNP(self, y, s) ==
    IF y.r < self.params.N_lim
    THEN PadColsLNP(self, ConcatRows(y, Zeros(self.params.N_lim - y.r, y.c)), s)
    ELSE PadColsLNP(self, y, s)

\* GLMJax._check_arrays of the LNP variant (src/LNP/glm_jax.py): no indicator,
\* the first element returned is current_M * current_N, and iter is advanced.
CheckArraysLNP(self, y, s) ==
    IF y.c # s.c \/ s.r # self.params.ds
    THEN Checked(self, "assert", 0, 0, y, s, None)
    ELSE PadRowsLNP(GrowWhile([self EXCEPT !.current_N = y.r, !.current_M = y.c], y.r),
                    y, s)

(***************************************************************************)
(* The likelihood engine of the basic variant.                             *)
(***************************************************************************)
\* np.log(p['dt']), a negative constant.
LogDt == -2

\* th_h[:, i] reshaped to (N_lim, 1)
HCol(p, th_h, i) ==
    IF IsErr(th_h) \/ i >= th_h.c \/ th_h.r # p.N_lim THEN Err
    ELSE SliceCols(th_h, i, i + 1)

RECURSIVE ConvolveLoop(_, _, _, _, _)
\* for i in np.arange(p['dh']): cvd += w_col * y[:, i:p['M_lim'] - (p['dh'] - i)]
ConvolveLoop(p, y, th_h, cvd, i) ==
    IF i >= p.dh THEN cvd
    ELSE ConvolveLoop(p, y, th_h,
                      Add(cvd, Mul(HCol(p, th_h, i),
                                   SliceCols(y, i, p.M_lim - (p.dh - i)))),
                      i + 1)

\* GLMJax._convolve: sliding window convolution for theta['h'].
Convolve(p, y, th_h) ==
    IF IsErr(y) THEN Err
    ELSE ConcatCols(Zeros(p.N_lim, p.dh),
                    ConvolveLoop(p, y, th_h, Zeros(y.r, y.c - p.dh), 0))

\* CalWeight taking the columns dh .. M_lim - 1 of theta["w"] @ y: the coupling
\* at column t then reads the spikes of column t itself.
CalWeight_SameColumn(th, p, y) ==
    ConcatCols(Zeros(p.N_lim, p.dh),
               SliceCols(MatMul(th.w, y), p.dh, p.M_lim))

\* cal_weight = theta["w"] @ y, then
\* np.hstack((np.zeros((N_lim, dh)), cal_weight[:, dh - 1:M_lim - 1]))
CalWeight(th, p, y) ==
    ConcatCols(Zeros(p.N_lim, p.dh),
               SliceCols(MatMul(th.w, y), p.dh - 1, p.M_lim - 1))

\* GLMJax._predict: the log rates.
Predict(th, p, y, s) ==
    LET cal_stim == MatMul(th.k, s)
        cal_hist == Convolve(p, y, th.h)
        cal_weight == CalWeight(th, p, y)
    IN  Add(Add(th.b, Add(Add(cal_stim, cal_weight), cal_hist)),
            Mat(1, 1, LAMBDA i, j : LogDt))

\* Whether GLMJax._ll raises on these arguments: the rates are multiplied by
\* the indicator and y by the log rates, both with broadcasting.
LlRaises(th, p, y, s, indicator) ==
    LET log_r == Predict(th, p, y, s)
    IN  IsErr(Mul(log_r, indicator)) \/ IsErr(Mul(y, log_r))

\* The regularization weights p['λ1'] and p['λ2'] of the configuration.
Lambda1 == 1
Lambda2 == 1

Abs(x) == IF x < 0 THEN -x ELSE x

\* np.sum(np.exp(log_r) * indicator), indicator of zeros and ones: exp is kept
\* symbolic, the sum is the bag of the log rates of the cells the indicator
\* keeps.
RateBag(log_r, indicator) ==
    LET cells == {c \in (0 .. log_r.r - 1) \X (0 .. log_r.c - 1) :
                     BAt(indicator, c[1], c[2]) # 0}
    IN  [x \in {At(log_r, c[1], c[2]) : c \in cells} |->
            Cardinality({c \in cells : At(log_r, c[1], c[2]) = x})]

\* GLMJax._ll, given the log rates: the terms of
\* (sum(r) - sum(y * log_r)) / (m * n ** 2) + l1 + l2, the regularization
\* terms as fractions <<numerator, denominator>> (np.mean divides by the size
\* of theta["w"]).
LlValueOf(log_r, th, m, n, y, indicator) ==
    [rates |-> RateBag(log_r, indicator),
     ylog |-> Sum(Mul(y, log_r)),
     den |-> m * n * n,
     l1 |-> <<Lambda1 * Sum(Mat(th.w.r, th.w.c, LAMBDA i, j : Abs(At(th.w, i, j)))),
              th.w.r * th.w.c * n>>,
     l2 |-> <<Lambda2 * Sum(Mul(th.w, th.w)), th.w.r * th.w.c * 2 * n>>]

\* GLMJax._ll: the negative log-likelihood.
LlValue(th, p, m, n, y, s, indicator) ==
    LlValueOf(Predict(th, p, y, s), th, m, n, y, indicator)

\* grad(GLMJax._ll)(theta, ...): an array per parameter, of the parameter's
\* shape.
Grad(th) ==
    [w |-> Ones(th.w.r, th.w.c), h |-> Ones(th.h.r, th.h.c),
     k |-> Ones(th.k.r, th.k.c), b |-> Ones(th.b.r, th.b.c)]


\* GLMJax._fit_ll: one gradient and one optimizer step, whatever rpf is.
FitLl(st, iter0) == opt_update(iter0, Grad(get_params(st)), st)

RECURSIVE FitLoop(_, _, _)
\* GLMJax._fit: for i in range(rpf): a gradient and an optimizer step.
FitLoop(st, iter0, n) ==
    IF n <= 0 THEN st
    ELSE FitLoop(opt_update(iter0, Grad(get_params(st)), st), iter0, n - 1)

(***************************************************************************)
(* The likelihood engine of the LNP variant: the parameters are sliced to  *)
(* N_lim, and there is no indicator.                                       *)
(***************************************************************************)
PredictLNP(th, p, y, s) ==
    LET N == p.N_lim
        cal_stim == MatMul(SliceRows(th.k, 0, N), s)
        cal_hist == Convolve(p, y, SliceRows(th.h, 0, N))
        cal_weight == ConcatCols(Zeros(N, p.dh),
                                 SliceCols(MatMul(SliceCols(SliceRows(th.w, 0, N), 0, N), y),
                                           p.dh - 1, p.M_lim - 1))
    IN  Add(SliceRows(th.b, 0, N), Add(Add(cal_stim, cal_weight), cal_hist))

LlRaisesLNP(th, p, y, s) == IsErr(Mul(y, PredictLNP(th, p, y, s)))

(***************************************************************************)
(* The floating-point stage of the LNP likelihood.  The argument of np.exp *)
(* is an exact number; np.exp gives 0.0 below the range of a double and    *)
(* inf above it, and from there on a value is finite, +inf, -inf or NaN    *)
(* with the arithmetic of IEEE 754 (inf * 0 is NaN).                       *)
(***************************************************************************)
\* np.exp(x) of a double: inf for x above ExpMax, 0.0 for x below ExpMin.
ExpMax == 709
ExpMin == -745

Fin(v) == [k |-> "fin", v |-> v]
PInf == [k |-> "pinf", v |-> 0]
NInf == [k |-> "ninf", v |-> 0]
NaN == [k |-> "nan", v |-> 0]

\* p['dt'] * np.exp(x): zero, infinite, or the positive number whose
\* logarithm is v.
RateF(x) ==
    IF x > ExpMax THEN [k |-> "inf", v |-> 0]
    ELSE IF x < ExpMin THEN [k |-> "zero", v |-> 0]
    ELSE [k |-> "pos", v |-> x + LogDt]

\* np.log(r) of a rate
LogF(r) ==
    IF r.k = "zero" THEN NInf ELSE IF r.k = "inf" THEN PInf ELSE Fin(r.v)

\* np.isfinite(x), as the number it multiplies as
IsFiniteF(x) == IF x.k = "fin" THEN 1 ELSE 0

\* x * n for a float x and an exact number n
TimesF(x, n) ==
    IF x.k = "fin" THEN Fin(x.v * n)
    ELSE IF x.k = "nan" \/ n = 0 THEN NaN
    ELSE IF n > 0 THEN x
    ELSE IF x.k = "pinf" THEN NInf ELSE PInf

\* log_r = np.log(p['dt'] * np.exp(total)), before the masking
LogRaw(total) ==
    Mat(total.r, total.c, LAMBDA i, j : LogF(RateF(At(total, i, j))))

\* log_r *= np.isfinite(log_r)
LogMasked(raw) ==
    Mat(raw.r, raw.c, LAMBDA i, j : TimesF(At(raw, i, j), IsFiniteF(At(raw, i, j))))

\* The kinds of the terms of np.sum(r): finite or +inf.
RateKinds(total) ==
    {IF RateF(total.v[q]).k = "inf" THEN "pinf" ELSE "fin" : q \in DOMAIN total.v}

\* The kinds of the terms of np.sum(y * log_r).
TermKinds(y, masked) ==
    {TimesF(masked.v[q], y.v[q]).k : q \in DOMAIN masked.v}

\* The kind of a sum, given the kinds of its terms.
SumKind(K) ==
    IF "nan" \in K \/ {"pinf", "ninf"} \subseteq K THEN "nan"
    ELSE IF "pinf" \in K THEN "pinf"
    ELSE IF "ninf" \in K THEN "ninf"
    ELSE "fin"

\* The kind of a - b.
MinusKind(a, b) ==
    IF a = "nan" \/ b = "nan" \/ (a = b /\ a # "fin") THEN "nan"
    ELSE IF a # "fin" THEN a
    ELSE IF b = "pinf" THEN "ninf"
    ELSE IF b = "ninf" THEN "pinf"
    ELSE "fin"

\* What GLMJax._ll of the LNP variant returns, as a kind of float:
\* (np.sum(r) - correction - np.sum(y * log_r)) / (N * curr_mn) + l1 + l2,
\* the correction, the divisor and the penalties being finite.
LlKindLNP(total, y) ==
    MinusKind(SumKind(RateKinds(total)),
              SumKind(TermKinds(y, LogMasked(LogRaw(total)))))

(***************************************************************************)
(* The state: the fields of one model object, and ret, the record of the   *)
(* last call made on it (what was passed, what the shape normalizer        *)
(* returned, how the call ended).                                          *)
(***************************************************************************)
VARIABLES
    cls,        \* the object's class: "GLMJax", "GLMJaxSynthetic", "LNP"
    offline,    \* self.offline
    rpf,        \* self.rpf
    params,     \* self.params
    theta_,     \* self._theta, the optimizer state
    iter,       \* self.iter
    current_N,  \* self.current_N
    current_M,  \* self.current_M
    ones,       \* self.ones
    data,       \* self.y, self.s (None when the object holds no dataset)
    rand,       \* self.rand, the batch of start offsets
    cfg,        \* what the constructor was given, and whether it returned
    carry,      \* the V and ycurr the caller of the conductance-based fit holds
    ret         \* the last call

vars == <<cls, offline, rpf, params, theta_, iter, current_N, current_M, ones,
          data, rand, cfg, carry, ret>>

\* The keys __init__ requires of the configuration p, and those _ll reads.
RequiredKeys == {"ds", "dh", "dt", "N_lim", "M_lim"}
LikelihoodKeys == {"λ1", "λ2"}
\* The update rules jax.experimental.optimizers has (two of them).
KnownOptimizers == {"sgd", "adam"}

\* A complete configuration, a theta and a known optimizer, and an object
\* constructed from them.
Configured ==
    [keys |-> RequiredKeys \cup LikelihoodKeys, theta |-> TRUE, opt |-> "sgd",
     built |-> "yes"]

\* No V and ycurr: the caller of a model that takes none.
NoCarry == [V |-> None, ycurr |-> <<>>]

Self ==
    [params |-> params, theta_ |-> theta_, iter |-> iter,
     current_N |-> current_N, current_M |-> current_M]

\* The initial parameters handed to the constructor: distinct non-zero cells.
Theta0(N) ==
    [w |-> Mat(N, N, LAMBDA i, j : 10 + 3 * i + j),
     h |-> Mat(N, dh, LAMBDA i, j : 30 + 3 * i + j),
     k |-> Mat(N, ds, LAMBDA i, j : 50 + 3 * i + j),
     b |-> Mat(N, 1, LAMBDA i, j : 70 + i)]

\* The y and s a caller supplies to ll, grad and fit: h x w and ds x w, every
\* cell non-zero and telling its place.
InY(h, w) == Mat(h, w, LAMBDA i, j : 1 + i * (M_lim + 1) + j)
InS(w) == Mat(ds, w, LAMBDA i, j : 100 + i * (M_lim + 1) + j)
\* A supplied indicator: the shape of y, one cell marked as not real.
InInd(h, w) == Mat(h, w, LAMBDA i, j : IF i = 0 /\ j = 0 THEN 0 ELSE 1)

\* The dataset given to the constructor: n x T spikes and ds x T stimulus,
\* every cell telling its column.
DataY(n) == Mat(n, T, LAMBDA i, j : 1 + i * T + j)
DataS == Mat(ds, T, LAMBDA i, j : 100 + i * T + j)

Ret0 ==
    [op |-> "init", err |-> "none", cerr |-> "skip", h |-> 0, w |-> 0,
     ind |-> FALSE, return_ll |-> FALSE, iter0 |-> 0, N_lim0 |-> 0,
     th0 |-> Theta0(0), acc0 |-> 0, m |-> 0, n |-> 0, y |-> None, s |-> None,
     indicator |-> None, steps |-> 0, regen |-> FALSE, idx |-> -1,
     logr |-> None, lograw |-> None, nll |-> None, sem |-> "none", V0 |-> None, ycurr0 |-> None,
     V1 |-> None, rates |-> <<>>]

\* The record of a call that starts now.
RetCall(self, op, h, w, ind, rl) ==
    [Ret0 EXCEPT !.op = op, !.h = h, !.w = w, !.ind = ind, !.return_ll = rl,
                 !.iter0 = self.iter, !.N_lim0 = self.params.N_lim,
                 !.th0 = get_params(self.theta_), !.acc0 = self.theta_.acc]

\* ret with what the shape normalizer handed back.
WithChecked(r, ca) ==
    [r EXCEPT !.cerr = ca.err, !.m = ca.m, !.n = ca.n, !.y = ca.y, !.s = ca.s,
              !.indicator = ca.indicator]

\* What a handler leaves: the object's fields, the batch, the call's record.
Out(self, rnd, r) == [self |-> self, rand |-> rnd, ret |-> r]


(***************************************************************************)
(* The handlers of a basic-variant object (class GLMJax of                 *)
(* src/GLM/glm_jax.py).  Python evaluates a call's arguments from left to  *)
(* right: self.theta and self._theta are read before _check_arrays runs,   *)
(* so the engine gets the parameters as they were before any growth, with  *)
(* the (mutated in place) params and the padded data of after it.          *)
(***************************************************************************)
\* How a call that only evaluates the likelihood (or its gradient) ends: r is
\* the call's record, th the parameters handed to the engine, ca what
\* _check_arrays handed back.
Evaluate(r, th, ca, rnd) ==
    IF ca.err # "none" THEN Out(ca.self, rnd, [WithChecked(r, ca) EXCEPT !.err = ca.err])
    ELSE IF LlRaises(th, ca.self.params, ca.y, ca.s, ca.indicator)
    THEN Out(ca.self, rnd, [WithChecked(r, ca) EXCEPT !.err = "shape"])
    ELSE IF ~(LikelihoodKeys \subseteq cfg.keys)
    THEN Out(ca.self, rnd, [WithChecked(r, ca) EXCEPT !.err = "key"])
    ELSE Out(ca.self, rnd,
             [WithChecked(r, ca) EXCEPT
                 !.nll = LlValue(th, ca.self.params, ca.m, ca.n, ca.y, ca.s,
                                 ca.indicator)])

\* GLMJax.ll
GLMJax_ll(self, rnd, y, s, indicator) ==
    Evaluate(RetCall(self, "ll", y.r, y.c, ~IsNone(indicator), FALSE),
             get_params(self.theta_), CheckArraysGLM(self, y, s, indicator), rnd)

\* GLMJax.grad
GLMJax_grad(self, rnd, y, s, indicator) ==
    Evaluate(RetCall(self, "grad", y.r, y.c, ~IsNone(indicator), FALSE),
             get_params(self.theta_), CheckArraysGLM(self, y, s, indicator), rnd)

\* GLMJax.predict, its end: np.exp(log_r) * indicator, the log rates kept in
\* the call's record.
PredictOut(r, self, rnd, logr, indicator) ==
    IF IsErr(logr) \/ IsErr(Mul(logr, indicator))
    THEN Out(self, rnd, [r EXCEPT !.err = "shape"])
    ELSE Out(self, rnd, [r EXCEPT !.logr = logr])

\* GLMJax.predict, after _check_arrays: self.theta is read once the data are
\* normalized (and the capacity grown).
PredictEngine(r, ca, rnd) ==
    IF ca.err # "none" THEN Out(ca.self, rnd, [WithChecked(r, ca) EXCEPT !.err = ca.err])
    ELSE PredictOut(WithChecked(r, ca), ca.self, rnd,
                    Predict(get_params(ca.self.theta_), ca.self.params, ca.y, ca.s),
                    ca.indicator)

\* GLMJax.predict
GLMJax_predict(self, rnd, y, s, indicator) ==
    PredictEngine(RetCall(self, "predict", y.r, y.c, ~IsNone(indicator), FALSE),
                  CheckArraysGLM(self, y, s, indicator), rnd)

\* The number of values _fit_ll returns (theta, ll) and the number of targets
\* GLMJax.fit unpacks them into (self._theta, self.iter, ll).
FitLlReturns == 2
FitLlTargets == 3
\* The number of values iterating what _fit returns yields (an OptimizerState:
\* packed_state, tree_def, subtree_defs) and the number of targets GLMJax.fit
\* unpacks them into (self._theta, self.iter).
FitReturns == 3
FitTargets == 2

\* Whether the tuple assignment of GLMJax.fit can unpack what it is given.
Unpacks(return_ll) ==
    IF return_ll THEN FitLlReturns = FitLlTargets ELSE FitReturns = FitTargets

\* The steps of one fit call on the optimizer state st: _fit_ll when the
\* likelihood is asked for, _fit otherwise.
Steps(st, iter0, return_ll) ==
    IF return_ll THEN FitLl(st, iter0) ELSE FitLoop(st, iter0, rpf)

\* ret with the number of optimizer steps the call left in self._theta.
Stored(r, st0, st1) == [r EXCEPT !.steps = st1.acc - st0.acc]

\* GLMJax.fit, after its arguments are evaluated: st0 and iter0 are
\* self._theta and self.iter as read before _check_arrays ran.
FitEngine(r, st0, iter0, ca, rnd) ==
    IF ca.err # "none" THEN Out(ca.self, rnd, [WithChecked(r, ca) EXCEPT !.err = ca.err])
    ELSE IF LlRaises(get_params(st0), ca.self.params, ca.y, ca.s, ca.indicator)
    THEN Out(ca.self, rnd, [WithChecked(r, ca) EXCEPT !.err = "shape"])
    ELSE IF ~Unpacks(r.return_ll)
    THEN Out(ca.self, rnd, [WithChecked(r, ca) EXCEPT !.err = "unpack"])
    ELSE Out([ca.self EXCEPT !.theta_ = Steps(st0, iter0, r.return_ll),
                             !.iter = iter0 + 1],
             rnd, Stored(WithChecked(r, ca), st0, Steps(st0, iter0, r.return_ll)))

\* GLMJax.fit
GLMJax_fit(self, rnd, y, s, return_ll, indicator) ==
    FitEngine(RetCall(self, "fit", y.r, y.c, ~IsNone(indicator), return_ll),
              self.theta_, self.iter, CheckArraysGLM(self, y, s, indicator), rnd)

(***************************************************************************)
(* The streaming controller (class GLMJaxSynthetic of src/GLM/glm_jax.py). *)
(***************************************************************************)
\* The arguments GLMJaxSynthetic.fit hands to the engine when it does not go
\* through the shape normalizer.
Direct(self, y, s, indicator) ==
    Checked(self, "skip", self.params.M_lim, self.params.N_lim, y, s, indicator)

\* GLMJaxSynthetic.fit, the gradient steps on the selected window (args).
SyntheticEngine(r, args, rnd) ==
    IF args.err \notin {"none", "skip"}
    THEN Out(args.self, rnd, [WithChecked(r, args) EXCEPT !.err = args.err])
    ELSE IF LlRaises(get_params(args.self.theta_), args.self.params, args.y, args.s,
                     args.indicator)
    THEN Out(args.self, rnd, [WithChecked(r, args) EXCEPT !.err = "shape"])
    ELSE Out([args.self EXCEPT
                 !.theta_ = Steps(args.self.theta_, args.self.iter, r.return_ll),
                 !.iter = args.self.iter + 1],
             rnd,
             Stored(WithChecked(r, args), args.self.theta_,
                    Steps(args.self.theta_, args.self.iter, r.return_ll)))

\* GLMJaxSynthetic.fit, offline: the window starts at entry iter % 10000 of
\* the batch.
SyntheticOffline(r, self, rnd, M) ==
    IF (self.iter % BatchSize) \notin DOMAIN rnd
    THEN Out(self, rnd, [r EXCEPT !.err = "index"])
    ELSE SyntheticEngine(r,
             Direct(self,
                    SliceCols(data.y, rnd[self.iter % BatchSize],
                              rnd[self.iter % BatchSize] + M),
                    SliceCols(data.s, rnd[self.iter % BatchSize],
                              rnd[self.iter % BatchSize] + M),
                    ones),
             rnd)

\* SyntheticOnline with the growing window cut at column iter, exclusive.
SyntheticOnline_ExclusiveEnd(r, self, rnd, M, indicator) ==
    IF self.iter < M
    THEN SyntheticEngine(r,
             CheckArraysGLM(self, SliceCols(data.y, 0, self.iter),
                            SliceCols(data.s, 0, self.iter), indicator),
             rnd)
    ELSE SyntheticEngine(r,
             Direct(self, SliceCols(data.y, self.iter - M, self.iter),
                    SliceCols(data.s, self.iter - M, self.iter),
                    IF IsNone(indicator) THEN ones ELSE indicator),
             rnd)

\* GLMJaxSynthetic.fit, not offline: the growing, then the sliding window.
SyntheticOnline(r, self, rnd, M, indicator) ==
    IF self.iter < M
    THEN SyntheticEngine(r,
             CheckArraysGLM(self, SliceCols(data.y, 0, self.iter + 1),
                            SliceCols(data.s, 0, self.iter + 1), indicator),
             rnd)
    ELSE SyntheticEngine(r,
             Direct(self, SliceCols(data.y, self.iter - M, self.iter),
                    SliceCols(data.s, self.iter - M, self.iter),
                    IF IsNone(indicator) THEN ones ELSE indicator),
             rnd)

\* Whether this fit call draws a new batch: iter % 10000 == 0.
Regen(self) == self.iter % BatchSize = 0

\* GLMJaxSynthetic.fit; batch is what onp.random.randint returns if it is
\* called (it raises when high <= low).
Synthetic_fit(self, rnd, batch, return_ll, indicator) ==
    IF offline
    THEN IF Regen(self) /\ data.y.c - self.params.M_lim + 1 <= 0
         THEN Out(self, rnd, [RetCall(self, "fit", 0, 0, ~IsNone(indicator), return_ll)
                                 EXCEPT !.err = "value", !.regen = TRUE])
         ELSE SyntheticOffline(
                  [RetCall(self, "fit", 0, 0, ~IsNone(indicator), return_ll)
                      EXCEPT !.regen = Regen(self), !.idx = self.iter % BatchSize],
                  self, IF Regen(self) THEN batch ELSE rnd, self.params.M_lim)
    ELSE SyntheticOnline(RetCall(self, "fit", 0, 0, ~IsNone(indicator), return_ll),
                         self, rnd, self.params.M_lim, indicator)

(***************************************************************************)
(* The handlers of an LNP object (class GLMJax of src/LNP/glm_jax.py).     *)
(* Here _check_arrays runs before self.theta is read.                      *)
(***************************************************************************)
\* How ll ends, ca being what _check_arrays handed back.
EvaluateLNP(r, ca, rnd) ==
    IF ca.err # "none" THEN Out(ca.self, rnd, [WithChecked(r, ca) EXCEPT !.err = ca.err])
    ELSE IF LlRaisesLNP(get_params(ca.self.theta_), ca.self.params, ca.y, ca.s)
    THEN Out(ca.self, rnd, [WithChecked(r, ca) EXCEPT !.err = "shape"])
    ELSE Out(ca.self, rnd,
             [WithChecked(r, ca) EXCEPT
                 !.lograw = LogRaw(PredictLNP(get_params(ca.self.theta_),
                                              ca.self.params, ca.y, ca.s)),
                 !.logr = LogMasked(LogRaw(PredictLNP(get_params(ca.self.theta_),
                                                      ca.self.params, ca.y, ca.s))),
                 !.nll = LlKindLNP(PredictLNP(get_params(ca.self.theta_),
                                              ca.self.params, ca.y, ca.s), ca.y)])

\* GLMJax.ll
LNP_ll(self, rnd, y, s) ==
    EvaluateLNP(RetCall(self, "ll", y.r, y.c, FALSE, FALSE),
                CheckArraysLNP(self, y, s), rnd)

\* GLMJax.fit, the gradient and the optimizer step on the arguments args.
EngineLNP(r, args, rnd) ==
    IF args.err \notin {"none", "skip"}
    THEN Out(args.self, rnd, [WithChecked(r, args) EXCEPT !.err = args.err])
    ELSE IF LlRaisesLNP(get_params(args.self.theta_), args.self.params, args.y, args.s)
    THEN Out(args.self, rnd, [WithChecked(r, args) EXCEPT !.err = "shape"])
    ELSE Out([args.self EXCEPT
                 !.theta_ = FitLl(args.self.theta_, args.self.iter),
                 !.iter = args.self.iter + 1],
             rnd,
             Stored(WithChecked(r, args), args.self.theta_,
                    FitLl(args.self.theta_, args.self.iter)))

\* GLMJax.fit, once the batch is settled: offline the window starts at entry
\* iter % 10000 of the batch, else the supplied data are normalized.
WindowLNP(r, self, rnd, M, y, s) ==
    IF offline
    THEN IF (self.iter % BatchSize) \notin DOMAIN rnd
         THEN Out(self, rnd, [r EXCEPT !.err = "index", !.idx = self.iter % BatchSize])
         ELSE EngineLNP([r EXCEPT !.idx = self.iter % BatchSize],
                  Checked(self, "skip", self.params.N_lim * M, 0,
                          SliceCols(data.y, rnd[self.iter % BatchSize],
                                    rnd[self.iter % BatchSize] + M),
                          SliceCols(data.s, rnd[self.iter % BatchSize],
                                    rnd[self.iter % BatchSize] + M),
                          None),
                  rnd)
    ELSE EngineLNP(r, CheckArraysLNP(self, y, s), rnd)

\* GLMJax.fit; batch is what onp.random.randint returns if it is called.  The
\* batch is drawn whether or not the object is offline, from self.y, which
\* only an offline object has.
LNP_fit(self, rnd, batch, y, s, return_ll) ==
    IF Regen(self) /\ IsNone(data.y)
    THEN Out(self, rnd, [RetCall(self, "fit", y.r, y.c, FALSE, return_ll)
                            EXCEPT !.err = "attr", !.regen = TRUE])
    ELSE IF Regen(self) /\ data.y.c - self.params.M_lim + 1 <= 0
    THEN Out(self, rnd, [RetCall(self, "fit", y.r, y.c, FALSE, return_ll)
                            EXCEPT !.err = "value", !.regen = TRUE])
    ELSE WindowLNP([RetCall(self, "fit", y.r, y.c, FALSE, return_ll)
                       EXCEPT !.regen = Regen(self)],
                   self, IF Regen(self) THEN batch ELSE rnd, self.params.M_lim, y, s)

(***************************************************************************)
(* The conductance-based variant (class GLMJax of                          *)
(* src/GLM/model/CBEM_online.py).  A membrane potential vector is kept     *)
(* symbolic: the resting vector, and the steps of the recurrence and the   *)
(* history terms applied to it, in order.                                  *)
(***************************************************************************)
\* _fit resets V when the window has fewer columns than this.
ShortWindow == 10

\* np.ones(N) * -60
Rest(N) == [n |-> N, tr |-> <<>>]

\* np.exp(-dt * gtot[:, t]) * (V - Itot[:, t] / gtot[:, t]) + Itot[:, t] / gtot[:, t],
\* gtot and Itot computed from the stimulus column scol.
StepV(V, scol) == [V EXCEPT !.tr = Append(@, <<"step", scol>>)]

\* V + (-theta['h'] * ycol): a column of zeros adds nothing.
PlusHist(V, ycol) ==
    IF \A i \in DOMAIN ycol : ycol[i] = 0 THEN V
    ELSE [V EXCEPT !.tr = Append(@, <<"hist", ycol>>)]

\* A[:, t], a negative t counted from the end.
Col(A, t) == [i \in 0 .. A.r - 1 |-> At(A, i, IF t < 0 THEN t + A.c ELSE t)]

\* Whether the body of "for _ in sc.cond_range(pred)" assigns its Python
\* locals: at every pass (the body is traced once whatever pred is), or only
\* when pred holds.
Executes(sem, pred) == sem = "always" \/ pred

\* One pass of V_loop at column t: loc holds the locals Vnow and cal_hist
\* as the pass before left them.
VLoopLocals(y, s, ycurr, V, loc, t, sem) ==
    LET l1 == IF Executes(sem, t = 0) THEN [Vnow |-> V, hist |-> ycurr] ELSE loc
    IN  IF Executes(sem, t # 1)
        THEN [Vnow |-> StepV(V, Col(s, t)), hist |-> Col(y, t - 1)]
        ELSE l1

RECURSIVE VLoopFrom(_, _, _, _, _, _, _)
RECURSIVE VLoopStep(_, _, _, _, _, _)
\* V_loop of _ll from column t on: the potential behind each column's rate.
VLoopFrom(y, s, ycurr, V, loc, t, sem) ==
    IF t >= y.c THEN <<>>
    ELSE VLoopStep(y, s, ycurr, VLoopLocals(y, s, ycurr, V, loc, t, sem), t, sem)

\* V = Vnow + cal_hist; sc.r[:, t] = c * log(1 + exp(a * V + b)); next column.
VLoopStep(y, s, ycurr, loc, t, sem) ==
    <<PlusHist(loc.Vnow, loc.hist)>>
        \o VLoopFrom(y, s, ycurr, PlusHist(loc.Vnow, loc.hist), loc, t + 1, sem)

\* V_loop of GLMJax._ll.
VLoop(y, s, V, ycurr, sem) ==
    VLoopFrom(y, s, ycurr, V, [Vnow |-> V, hist |-> ycurr], 0, sem)

RECURSIVE LlRFrom(_, _, _, _)
\* The loop of GLMJax.ll_r from column t >= 1 on.
LlRFrom(y, s, V, t) ==
    IF t >= y.c THEN <<>>
    ELSE <<PlusHist(StepV(V, Col(s, t)), Col(y, t - 1))>>
             \o LlRFrom(y, s, PlusHist(StepV(V, Col(s, t)), Col(y, t - 1)), t + 1)

\* GLMJax.ll_r: the reference loop, column 0 at rest with no history.
LlR(y, s, N) == <<Rest(N)>> \o LlRFrom(y, s, Rest(N), 1)

\* The initial parameters of a conductance-based model: theta['h'] is a
\* vector of N entries (hdim = 1, kept as an N x 1 array) or an N x dh matrix
\* (hdim = 2); the constructor checks neither.
Theta0CBEM(N, hdim) ==
    [h |-> Mat(N, IF hdim = 1 THEN 1 ELSE dh, LAMBDA i, j : 30 + 3 * i + j),
     hdim |-> hdim,
     be |-> Mat(N, 1, LAMBDA i, j : 70 + i),
     bi |-> Mat(N, 1, LAMBDA i, j : 80 + i),
     ke |-> Mat(N, ds, LAMBDA i, j : 50 + 3 * i + j),
     ki |-> Mat(N, ds, LAMBDA i, j : 60 + 3 * i + j)]

\* self._theta is a plain dict, not an optimizer state: what a growth that
\* raised leaves behind.
BareDict(th) == [params |-> th, acc |-> -1]
IsBareDict(st) == st.acc = -1

\* What a conductance-based handler leaves: the object's fields, the caller's
\* V and ycurr, the call's record.
OutC(self, cr, r) == [self |-> self, carry |-> cr, ret |-> r]

\* GLMJax._increase_theta_size of the conductance-based variant: the object's
\* fields when it raises, and the exception.  It has no path that returns:
\* theta['h'] of one dimension cannot be concatenated with a matrix of zeros,
\* and self._theta['b'] is not a key of this variant's parameters.
IncreaseThetaSizeCBEM(self) ==
    IF IsBareDict(self.theta_) THEN [self |-> self, err |-> "state"]
    ELSE IF get_params(self.theta_).hdim = 1
    THEN [self |-> [self EXCEPT !.theta_ = BareDict(get_params(self.theta_))],
          err |-> "dims"]
    ELSE [self |-> [self EXCEPT !.theta_ =
                       BareDict([get_params(self.theta_) EXCEPT
                                    !.h = ConcatRows(@, Zeros(self.params.N_lim,
                                                              self.params.dh))])],
          err |-> "key"]

\* _check_arrays, the growth raised: the exception propagates.
GrowthRaised(g, y, s) == Checked(g.self, g.err, 0, 0, y, s, None)

\* GLMJax._check_arrays of the conductance-based variant: y and s are handed
\* back as they came, the indicator is a buffer of zeros.
CheckArraysCBEM(self, y, s) ==
    IF y.r > self.params.N_lim
    THEN GrowthRaised(IncreaseThetaSizeCBEM([self EXCEPT !.current_N = y.r,
                                                         !.current_M = y.c]), y, s)
    ELSE Checked([self EXCEPT !.current_N = y.r, !.current_M = y.c], "none",
                 y.c, y.r, y, s, Zeros(self.params.N_lim, y.c))

\* One optimizer step on the conductance-based parameters.
opt_updateCBEM(st) ==
    [params |-> [st.params EXCEPT
                    !.h = Minus(@, Ones(@.r, @.c)), !.be = Minus(@, Ones(@.r, @.c)),
                    !.bi = Minus(@, Ones(@.r, @.c)), !.ke = Minus(@, Ones(@.r, @.c)),
                    !.ki = Minus(@, Ones(@.r, @.c))],
     acc |-> st.acc + 1]

RECURSIVE FitLoopCBEM(_, _, _, _, _)
\* GLMJax._fit of the conductance-based variant, n passes left: the state
\* and V it returns.  A window shorter than ShortWindow sets V to rest.
FitLoopCBEM(st, V, y, s, n) ==
    IF n <= 0 THEN [st |-> st, V |-> V]
    ELSE FitLoopCBEM(opt_updateCBEM(st),
                     IF y.c < ShortWindow THEN Rest(Cardinality(DOMAIN Col(y, 0)))
                     ELSE StepV(V, Col(s, 0)),
                     y, s, n - 1)

\* Whether grad(_ll) and the update of V raise on these shapes.
RaisesCBEM(th, p, y, s, V, ycurr) ==
    \/ th.hdim # 1
    \/ y.r # p.N_lim
    \/ s.r # p.ds
    \/ s.c # y.c
    \/ V.n # p.N_lim
    \/ Cardinality(DOMAIN ycurr) # p.N_lim

\* GLMJax.fit, what it stores and returns: self._theta, iter += 1, and V and
\* y[:, 0] to the caller, who keeps them for the next call.
FitStoredCBEM(r, ca, cr, sem, out) ==
    OutC([ca.self EXCEPT !.theta_ = out.st, !.iter = @ + 1],
         [V |-> out.V, ycurr |-> Col(ca.y, 0)],
         [r EXCEPT !.steps = out.st.acc - ca.self.theta_.acc,
                   !.V1 = out.V,
                   !.rates = VLoop(ca.y, ca.s, cr.V, cr.ycurr, sem)])

\* GLMJax.fit of the conductance-based variant, its arguments evaluated.
\* With return_ll the call hands _fit_ll ten arguments for twelve parameters.
FitEngineCBEM(r, ca, cr, sem) ==
    IF ca.err # "none"
    THEN OutC(ca.self, cr, [WithChecked(r, ca) EXCEPT !.err = ca.err])
    ELSE IF r.return_ll
    THEN OutC(ca.self, cr, [WithChecked(r, ca) EXCEPT !.err = "arity"])
    ELSE IF IsBareDict(ca.self.theta_)
    THEN OutC(ca.self, cr, [WithChecked(r, ca) EXCEPT !.err = "state"])
    ELSE IF RaisesCBEM(get_params(ca.self.theta_), ca.self.params, ca.y, ca.s,
                       cr.V, cr.ycurr)
    THEN OutC(ca.self, cr, [WithChecked(r, ca) EXCEPT !.err = "shape"])
    ELSE FitStoredCBEM(WithChecked(r, ca), ca, cr, sem,
                       FitLoopCBEM(ca.self.theta_, cr.V, ca.y, ca.s, rpf))

\* GLMJax.fit(y, s, V, ycurr, return_ll) of the conductance-based variant.
CBEM_fit(self, cr, y, s, return_ll, sem) ==
    FitEngineCBEM([RetCall(self, "fit", y.r, y.c, FALSE, return_ll)
                      EXCEPT !.sem = sem, !.V0 = cr.V, !.ycurr0 = cr.ycurr],
                  CheckArraysCBEM(self, y, s), cr, sem)

\* GLMJax.ll of the conductance-based variant, after _check_arrays: _ll is
\* handed seven arguments for its nine parameters.
LlEngineCBEM(r, ca, cr) ==
    IF ca.err # "none"
    THEN OutC(ca.self, cr, [WithChecked(r, ca) EXCEPT !.err = ca.err])
    ELSE OutC(ca.self, cr, [WithChecked(r, ca) EXCEPT !.err = "arity"])

\* GLMJax.ll(y, s) of the conductance-based variant: self.theta is read
\* first.
CBEM_ll(self, cr, y, s) ==
    IF IsBareDict(self.theta_)
    THEN OutC(self, cr, [RetCall(self, "ll", y.r, y.c, FALSE, FALSE) EXCEPT !.err = "state"])
    ELSE LlEngineCBEM(RetCall(self, "ll", y.r, y.c, FALSE, FALSE),
                      CheckArraysCBEM(self, y, s), cr)

(***************************************************************************)
(* The state machine: an object is constructed, then its caller calls ll,  *)
(* grad and fit in any order.                                              *)
(***************************************************************************)
\* The initial neuron capacities a model is constructed with.
NLim0 == {1, 2}
\* The values of rpf a model is constructed with.
Rpfs == {1, 2}
\* The batches randint can return: BatchSize offsets in [0, high).
Batches == [0 .. BatchSize - 1 -> 0 .. Max(T - M_lim, 0)]
\* The indicator arguments a caller passes with an h x w input.
Indicators(h, w) == {None, InInd(h, w)}
\* The widths of supplied data: up to one column more than M_lim.
Widths == 1 .. M_lim + 1
\* The widths of the data supplied to an LNP object: narrower than M_lim, M_lim
\* and wider.
WidthsLNP == M_lim - 1 .. M_lim + 1

\* GLMJax.__init__ / GLMJaxSynthetic.__init__ (both variants): the state after
\* construction.
Init ==
    /\ cls \in {"GLMJax", "GLMJaxSynthetic", "LNP"}
    /\ offline \in IF cls = "GLMJax" THEN {FALSE} ELSE BOOLEAN
    /\ rpf \in IF cls = "LNP" THEN {1} ELSE Rpfs
    /\ \E N \in NLim0 :
        /\ params = [N_lim |-> N, M_lim |-> M_lim, dh |-> dh, ds |-> ds]
        /\ theta_ = opt_init(Theta0(N))
        /\ ones = IF cls = "LNP" THEN None ELSE Ones(N, M_lim)
        /\ current_N = IF cls = "GLMJaxSynthetic" /\ offline THEN N ELSE 0
    /\ current_M = IF cls = "GLMJaxSynthetic" /\ offline THEN M_lim ELSE 0
    /\ data \in IF cls = "GLMJaxSynthetic" \/ (cls = "LNP" /\ offline)
                THEN {[y |-> DataY(n), s |-> DataS] :
                         n \in IF cls = "LNP" THEN NLim0 ELSE 1 .. MaxN}
                ELSE {[y |-> None, s |-> None]}
    /\ cls = "GLMJaxSynthetic" => data.y.c >= current_M
    /\ iter = 0
    /\ rand = [i \in {} |-> 0]
    /\ cfg = Configured
    /\ carry = NoCarry
    /\ ret = Ret0

Apply(o) ==
    /\ params' = o.self.params
    /\ theta_' = o.self.theta_
    /\ iter' = o.self.iter
    /\ current_N' = o.self.current_N
    /\ current_M' = o.self.current_M
    /\ rand' = o.rand
    /\ ret' = o.ret
    /\ UNCHANGED <<cls, offline, rpf, ones, data, cfg, carry>>

\* a call of ll(y, s, indicator)
Ll ==
    /\ cls = "GLMJax"
    /\ cfg.built = "yes"
    /\ iter < MaxIter
    /\ \E h \in 1 .. MaxN, w \in Widths :
        \E ind \in Indicators(h, w) :
            Apply(GLMJax_ll(Self, rand, InY(h, w), InS(w), ind))

\* a call of grad(y, s, indicator)
GradCall ==
    /\ cls = "GLMJax"
    /\ iter < MaxIter
    /\ \E h \in 1 .. MaxN, w \in Widths :
        Apply(GLMJax_grad(Self, rand, InY(h, w), InS(w), None))

\* a call of predict(y, s)
PredictCall ==
    /\ cls = "GLMJax"
    /\ iter < MaxIter
    /\ \E h \in 1 .. MaxN, w \in Widths :
        Apply(GLMJax_predict(Self, rand, InY(h, w), InS(w), None))

\* a call of fit(y, s, return_ll, indicator) on a GLMJax object
Fit ==
    /\ cls = "GLMJax"
    /\ iter < MaxIter
    /\ \E h \in 1 .. MaxN, w \in Widths, rl \in BOOLEAN :
        Apply(GLMJax_fit(Self, rand, InY(h, w), InS(w), rl, None))

\* a call of fit(return_ll, indicator) on a GLMJaxSynthetic object
FitSynthetic ==
    /\ cls = "GLMJaxSynthetic"
    /\ iter < MaxIter
    /\ \E batch \in IF offline /\ Regen(Self) THEN Batches ELSE {rand},
          rl \in BOOLEAN :
        Apply(Synthetic_fit(Self, rand, batch, rl, None))

\* a call of ll(y, s) on an LNP object
LlLNP ==
    /\ cls = "LNP"
    /\ iter < MaxIter
    /\ \E h \in 1 .. MaxN, w \in WidthsLNP :
        Apply(LNP_ll(Self, rand, InY(h, w), InS(w)))

\* a call of fit(y, s, return_ll) on an LNP object
FitLNP ==
    /\ cls = "LNP"
    /\ iter < MaxIter
    /\ \E batch \in IF offline /\ Regen(Self) THEN Batches ELSE {rand},
          h \in IF offline THEN {1} ELSE 1 .. MaxN,
          w \in IF offline THEN {1} ELSE WidthsLNP,
          rl \in BOOLEAN :
        Apply(LNP_fit(Self, rand, batch, InY(h, w), InS(w), rl))

\* The configurations a caller may hand to the constructor: any subset of
\* the keys, theta or None, an optimizer name (known or not) or None.
Configs ==
    [keys : SUBSET (RequiredKeys \cup LikelihoodKeys), theta : BOOLEAN,
     opt : KnownOptimizers \cup {"none", "bogus"}, built : {"no"}]

\* GLMJax.__init__: the exception it raises on the configuration c ("none"
\* when it returns).
InitRaises(c) ==
    IF ~(RequiredKeys \subseteq c.keys) THEN "config"
    ELSE IF ~c.theta THEN "theta"
    ELSE IF c.opt = "none" THEN "optimizer"
    ELSE IF c.opt \notin KnownOptimizers THEN "attr"
    ELSE "none"

\* GLMJax(p, theta, optimizer): a construction, which fails or leaves an
\* object.
Construct ==
    /\ cfg.built = "no"
    /\ \E N \in NLim0 :
        /\ params' = IF InitRaises(cfg) = "none"
                     THEN [N_lim |-> N, M_lim |-> M_lim, dh |-> dh, ds |-> ds]
                     ELSE params
        /\ theta_' = IF InitRaises(cfg) = "none" THEN opt_init(Theta0(N)) ELSE theta_
        /\ ones' = IF InitRaises(cfg) = "none" THEN Ones(N, M_lim) ELSE ones
    /\ cfg' = [cfg EXCEPT !.built = IF InitRaises(cfg) = "none" THEN "yes" ELSE "failed"]
    /\ ret' = [Ret0 EXCEPT !.op = "construct", !.err = InitRaises(cfg)]
    /\ UNCHANGED <<cls, offline, rpf, iter, current_N, current_M, data, rand, carry>>

\* The widths of the windows handed to the conductance-based fit: below
\* ShortWindow and at it.
WidthsCBEM == {1, 2, ShortWindow - 1, ShortWindow}
\* The two readings of sc.cond_range.
Sems == {"always", "pred"}

\* GLMJax.__init__ of the conductance-based variant, run where the module's
\* global N is defined, and the V and ycurr its caller starts from.
InitCBEM ==
    /\ cls = "CBEM"
    /\ offline = FALSE
    /\ rpf = 1
    /\ \E N \in NLim0, hdim \in {1, 2} :
        /\ params = [N_lim |-> N, M_lim |-> M_lim, dh |-> dh, ds |-> ds]
        /\ theta_ = opt_init(Theta0CBEM(N, hdim))
        /\ ones = Ones(N, M_lim)
        /\ carry = [V |-> Rest(N), ycurr |-> [i \in 0 .. N - 1 |-> 0]]
    /\ current_N = 0
    /\ current_M = 0
    /\ data = [y |-> None, s |-> None]
    /\ iter = 0
    /\ rand = [i \in {} |-> 0]
    /\ cfg = Configured
    /\ ret = Ret0

ApplyCBEM(o) ==
    /\ params' = o.self.params
    /\ theta_' = o.self.theta_
    /\ iter' = o.self.iter
    /\ current_N' = o.self.current_N
    /\ current_M' = o.self.current_M
    /\ carry' = o.carry
    /\ ret' = o.ret
    /\ UNCHANGED <<cls, offline, rpf, ones, data, rand, cfg>>

\* a call of ll(y, s) on a conductance-based object
LlCBEM ==
    /\ cls = "CBEM"
    /\ iter < MaxIter
    /\ \E h \in 1 .. MaxN, w \in WidthsCBEM :
        ApplyCBEM(CBEM_ll(Self, carry, InY(h, w), InS(w)))

\* a call of fit(y, s, V, ycurr, return_ll) on a conductance-based object,
\* with the V and ycurr the call before returned
FitCBEM ==
    /\ cls = "CBEM"
    /\ iter < MaxIter
    /\ \E h \in 1 .. MaxN, w \in WidthsCBEM, rl \in BOOLEAN, sem \in Sems :
        ApplyCBEM(CBEM_fit(Self, carry, InY(h, w), InS(w), rl, sem))

\* The calls on a conductance-based object.
NextCBEM == LlCBEM \/ FitCBEM
\* A conductance-based object.
SpecCBEM == InitCBEM /\ [][NextCBEM]_vars

\* The width the driver's window grows to before it slides.
Window == 10
\* The longest dataset the driver is run on.
MaxM == 14
\* The lengths M of the datasets: long enough for the window to slide.
LoopLens == Window + 2 .. MaxM

\* The dataset the driver loads: n x M spikes and ds x M stimulus, every cell
\* non-zero and telling its place.
LoopY(n, M) == Mat(n, M, LAMBDA i, j : 1 + i * M + j)
LoopS(M) == Mat(ds, M, LAMBDA i, j : 100 + i * M + j)

\* yfit, sfit at pass i of the driver: the first i columns while i <= window,
\* then the window columns before column i.
LoopWindow(A, i) ==
    IF i <= Window THEN SliceCols(A, 0, i) ELSE SliceCols(A, i - Window, i)

\* The driver before its loop: a model of N neurons with theta['h'] a
\* vector, the dataset loaded, V at rest and ycurr the first column.
InitLoop ==
    /\ cls = "CBEM"
    /\ offline = FALSE
    /\ rpf = 1
    /\ \E N \in NLim0, M \in LoopLens :
        /\ params = [N_lim |-> N, M_lim |-> M, dh |-> dh, ds |-> ds]
        /\ theta_ = opt_init(Theta0CBEM(N, 1))
        /\ ones = Ones(N, M)
        /\ data = [y |-> LoopY(N, M), s |-> LoopS(M)]
        /\ carry = [V |-> Rest(N), ycurr |-> Col(LoopY(N, M), 0)]
    /\ current_N = 0
    /\ current_M = 0
    /\ iter = 0
    /\ rand = [i \in {} |-> 0]
    /\ cfg = Configured
    /\ ret = Ret0

\* One pass of the driver's loop, i = iter + 1 (pass 0 fits nothing, and
\* every fit that returns adds one to iter): the window is cut, fit is
\* called with the V and ycurr of the pass before, and what it returns is
\* kept.  An exception ends the loop.
LoopFit ==
    /\ cls = "CBEM"
    /\ ~IsNone(data.y)
    /\ ret.err = "none"
    /\ iter + 1 < data.y.c
    /\ \E sem \in Sems :
        ApplyCBEM(CBEM_fit(Self, carry, LoopWindow(data.y, iter + 1),
                           LoopWindow(data.s, iter + 1), FALSE, sem))

\* The driver of the conductance-based model.
SpecLoop == InitLoop /\ [][LoopFit]_vars

\* The calls on a GLMJax object of the basic variant.
NextBasic == Ll \/ GradCall \/ PredictCall \/ Fit
\* The calls on an LNP object.
NextLNP == LlLNP \/ FitLNP

Next == NextBasic \/ FitSynthetic \/ NextLNP

\* The construction of an object of each class.
InitBasic == Init /\ cls = "GLMJax"
InitStream == Init /\ cls = "GLMJaxSynthetic"
InitLNP == Init /\ cls = "LNP"

\* The biases of a neuron whose rate underflows to zero, of one with a
\* moderate rate, and of one whose rate overflows.
Biases == {ExpMin - 1, 0, ExpMax + 1}

\* An LNP object constructed with zero weights and filters and the biases
\* b, so that the argument of np.exp is the neuron's bias.
InitNumeric ==
    /\ cls = "LNP"
    /\ offline = FALSE
    /\ rpf = 1
    /\ \E N \in NLim0 : \E b \in [0 .. N - 1 -> Biases] :
        /\ params = [N_lim |-> N, M_lim |-> M_lim, dh |-> dh, ds |-> ds]
        /\ theta_ = opt_init([w |-> Zeros(N, N), h |-> Zeros(N, dh),
                              k |-> Zeros(N, ds),
                              b |-> Mat(N, 1, LAMBDA i, j : b[i])])
    /\ ones = None
    /\ current_N = 0
    /\ current_M = 0
    /\ data = [y |-> None, s |-> None]
    /\ iter = 0
    /\ rand = [i \in {} |-> 0]
    /\ cfg = Configured
    /\ carry = NoCarry
    /\ ret = Ret0

\* The likelihood of an LNP object, evaluated over and over.
SpecNumeric == InitNumeric /\ [][LlLNP]_vars

\* Before any construction: no object yet, a configuration in the caller's
\* hands.
InitConstruct ==
    /\ cls = "GLMJax"
    /\ offline = FALSE
    /\ rpf = 1
    /\ params = [N_lim |-> 0, M_lim |-> M_lim, dh |-> dh, ds |-> ds]
    /\ theta_ = opt_init(Theta0(0))
    /\ ones = None
    /\ current_N = 0
    /\ current_M = 0
    /\ data = [y |-> None, s |-> None]
    /\ iter = 0
    /\ rand = [i \in {} |-> 0]
    /\ cfg \in Configs
    /\ carry = NoCarry
    /\ ret = Ret0

\* A construction of a basic-variant object, then ll calls on it.
SpecConstruct == InitConstruct /\ [][Construct \/ Ll]_vars

\* Every class of object.
Spec == Init /\ [][Next]_vars
\* A GLMJax object of the basic variant.
SpecBasic == InitBasic /\ [][NextBasic]_vars
\* A GLMJaxSynthetic object, the streaming controller.
SpecStream == InitStream /\ [][FitSynthetic]_vars
\* An LNP object.
SpecLNP == InitLNP /\ [][NextLNP]_vars


(***************************************************************************)
(* The claims.  ret holds the last call: what was supplied (h, w, ind),    *)
(* the object's fields before it (iter0, N_lim0, th0) and what the shape   *)
(* normalizer handed back (cerr, m, n, y, s, indicator).                   *)
(***************************************************************************)
\* The last call went through the shape normalizer of the basic variant with
\* an h x w input that fits the capacity and no indicator.
FitsNoIndicator ==
    /\ ret.op \in {"ll", "grad", "fit"}
    /\ ~ret.ind
    /\ ret.h <= ret.N_lim0
    /\ ret.w <= M_lim

\* A is the r x c array holding B on its top-left h x w block and zero
\* everywhere else.
IsPadded(A, r, c, B, h, w) ==
    /\ A.r = r
    /\ A.c = c
    /\ \A i \in 0 .. r - 1, j \in 0 .. c - 1 :
        At(A, i, j) = IF i < h /\ j < w THEN At(B, i, j) ELSE 0

\* C1: for an input y of shape (h, w), s of shape (ds, w) with h <= N_lim,
\* w <= M_lim and no indicator, _check_arrays returns y and indicator of
\* shape (N_lim, M_lim) and s of shape (ds, M_lim); y holds the input on its
\* top-left h x w block and zero elsewhere; the indicator is 1 on exactly that
\* block and 0 elsewhere, so it sums to h * w.
C1_NormalizerPads ==
    FitsNoIndicator =>
        /\ ret.cerr = "none"
        /\ params.N_lim = ret.N_lim0
        /\ IsPadded(ret.y, params.N_lim, M_lim, InY(ret.h, ret.w), ret.h, ret.w)
        /\ IsPadded(ret.s, ds, M_lim, InS(ret.w), ds, ret.w)
        /\ IsPadded(ret.indicator, params.N_lim, M_lim, Ones(ret.h, ret.w),
                    ret.h, ret.w)
        /\ Sum(ret.indicator) = ret.h * ret.w

\* C1, its case: an input smaller than the capacity in both directions was
\* normalized.
C1_Witness ==
    /\ FitsNoIndicator
    /\ ret.h < ret.N_lim0
    /\ ret.w < M_lim
    /\ ret.cerr = "none"

\* The old block of a grown tensor A (n0 rows, c0 columns kept) equals B, and
\* every other cell of A is zero.
GrownFrom(A, r, c, B, n0, c0) ==
    /\ B.r = n0
    /\ B.c = c0
    /\ IsPadded(A, r, c, B, n0, c0)
    /\ SliceCols(SliceRows(A, 0, n0), 0, c0) = B

\* C2: capacity growth preserves the visible parameters: after the growth (or
\* the consecutive growths) of a call, w, h, k, b sliced back to the N_lim of
\* before the call equal the tensors of before the call, and every added cell
\* is zero.
C2_GrowthPreserves ==
    (ret.op \in {"ll", "grad", "fit"} /\ params.N_lim > ret.N_lim0) =>
        /\ GrownFrom(get_params(theta_).w, params.N_lim, params.N_lim,
                     ret.th0.w, ret.N_lim0, ret.N_lim0)
        /\ GrownFrom(get_params(theta_).h, params.N_lim, dh,
                     ret.th0.h, ret.N_lim0, dh)
        /\ GrownFrom(get_params(theta_).k, params.N_lim, ds,
                     ret.th0.k, ret.N_lim0, ds)
        /\ GrownFrom(get_params(theta_).b, params.N_lim, 1,
                     ret.th0.b, ret.N_lim0, 1)

\* C2, its case: one call grew the capacity twice.
C2_Witness ==
    /\ ret.op \in {"ll", "grad", "fit"}
    /\ ret.N_lim0 >= 1
    /\ params.N_lim = 4 * ret.N_lim0

\* C3: when y has more rows than N_lim, the growth loop ends with N_lim the
\* smallest N_lim_old * 2^k (k >= 1) that is >= the rows of y, and the data
\* (of a width within M_lim) are then padded to that capacity without the
\* normalizer failing.
C3_GrowthLoop ==
    (ret.op \in {"ll", "grad", "fit"} /\ ret.cerr # "assert" /\ ret.h > ret.N_lim0) =>
        /\ \E k \in 1 .. ret.h : params.N_lim = ret.N_lim0 * 2 ^ k
        /\ params.N_lim >= ret.h
        /\ params.N_lim < 2 * ret.h
        /\ ret.w <= M_lim =>
            /\ ret.cerr = "none"
            /\ IsPadded(ret.y, params.N_lim, M_lim, InY(ret.h, ret.w), ret.h, ret.w)

\* C3, its case: rows beyond twice the capacity were supplied and normalized.
C3_Witness ==
    /\ ret.op \in {"ll", "grad", "fit"}
    /\ ret.h > 2 * ret.N_lim0
    /\ ret.N_lim0 >= 1
    /\ ret.cerr = "none"
    /\ ret.y.r = 4 * ret.N_lim0


\* C4: a call (ll, grad or fit) with data of more than M_lim columns fails
\* with the error of the normalizer's own width check ("data are too wide"),
\* and no optimizer step is produced from the data.
C4_TooWideError ==
    (ret.op \in {"ll", "grad", "fit"} /\ ret.w > M_lim) =>
        /\ ret.err = "too_wide"
        /\ ret.steps = 0

\* C5: every fit call (on data within M_lim columns) completes, and leaves
\* iter one above what it was before the call.
C5_IterPlusOne ==
    (ret.op = "fit" /\ ret.w <= M_lim) =>
        /\ ret.err = "none"
        /\ iter = ret.iter0 + 1

\* C6: every fit call that completes has applied exactly rpf gradient and
\* optimizer steps, whether or not the likelihood was asked for.
C6_RpfSteps ==
    (ret.op = "fit" /\ ret.err = "none") => ret.steps = rpf

\* C7: in the streaming controller, not offline, a fit call with
\* iter >= M_lim (and data column iter in the dataset) uses the M_lim columns
\* iter - M_lim + 1 .. iter of the dataset.
C7_SlidingWindow ==
    (ret.op = "fit" /\ ~offline /\ ret.iter0 >= M_lim /\ ret.iter0 < data.y.c) =>
        /\ ret.y = SliceCols(data.y, ret.iter0 - M_lim + 1, ret.iter0 + 1)
        /\ ret.s = SliceCols(data.s, ret.iter0 - M_lim + 1, ret.iter0 + 1)

\* The last call was a fit of the streaming controller in its growing phase.
Growing ==
    /\ ret.op = "fit"
    /\ ~offline
    /\ ret.iter0 < M_lim
    /\ ret.iter0 < data.y.c

C9_OfflineBatch ==
    (ret.op = "fit" /\ offline) =>
        /\ ret.err # "index"
        /\ ret.regen = (ret.iter0 % BatchSize = 0)
        /\ DOMAIN rand = 0 .. BatchSize - 1
        /\ \A i \in DOMAIN rand : rand[i] \in 0 .. data.y.c - M_lim
        /\ ret.idx = ret.iter0 % BatchSize
        /\ ret.y = SliceCols(data.y, rand[ret.idx], rand[ret.idx] + M_lim)
        /\ ret.y.c = M_lim


RECURSIVE SumOver(_, _)
\* f[0] + ... + f[n - 1]
SumOver(f, n) == IF n = 0 THEN 0 ELSE f[n - 1] + SumOver(f, n - 1)

\* The stimulus term of neuron n at column t: sum over k of k[n, k] * s[k, t].
StimTerm(th, s, n, t) ==
    SumOver([k \in 0 .. ds - 1 |-> At(th.k, n, k) * At(s, k, t)], ds)

\* The history term: sum over i < dh of h[n, i] * y[n, t - dh + i].
HistTerm(th, y, n, t) ==
    SumOver([i \in 0 .. dh - 1 |-> At(th.h, n, i) * At(y, n, t - dh + i)], dh)

\* The coupling term: (w @ y)[n, t - 1].
CouplingTerm(th, y, n, t) ==
    SumOver([j \in 0 .. y.r - 1 |-> At(th.w, n, j) * At(y, j, t - 1)], y.r)

\* A with every cell of the columns from on replaced by v.
Masked(A, from, v) ==
    Mat(A.r, A.c, LAMBDA i, j : IF j >= from THEN v ELSE At(A, i, j))

\* The last call was a predict that returned.
Predicted == ret.op = "predict" /\ ret.err = "none"

\* C10: in the basic variant the log-rate of neuron n at column t is
\* b[n] + (k @ s)[n, t] + log dt, plus, from column dh on, the history term
\* sum_i h[n, i] * y[n, t - dh + i] and the coupling term (w @ y)[n, t - 1];
\* the first dh columns carry no history and no coupling; so column t is
\* unchanged when the spikes of the columns >= t and the stimulus of the
\* columns > t are replaced.
C10_StrictlyCausal ==
    Predicted =>
        /\ ret.logr.r = params.N_lim
        /\ ret.logr.c = M_lim
        /\ \A n \in 0 .. params.N_lim - 1, t \in 0 .. M_lim - 1 :
            /\ At(ret.logr, n, t) =
                   At(get_params(theta_).b, n, 0) + StimTerm(get_params(theta_), ret.s, n, t)
                   + LogDt
                   + (IF t < dh THEN 0
                      ELSE HistTerm(get_params(theta_), ret.y, n, t)
                           + CouplingTerm(get_params(theta_), ret.y, n, t))
            /\ \A v \in {0, 9} :
                At(Predict(get_params(theta_), params, Masked(ret.y, t, v),
                           Masked(ret.s, t + 1, v)), n, t)
                = At(ret.logr, n, t)

\* C10, its case: a prediction on full-width data of two neurons, whose last
\* column carries history and coupling, and whose spikes of the column before
\* the last do change the last column.
C10_Witness ==
    /\ Predicted
    /\ ret.h >= 2
    /\ ret.w = M_lim
    /\ At(ret.logr, 1, M_lim - 1) #
           At(get_params(theta_).b, 1, 0)
           + StimTerm(get_params(theta_), ret.s, 1, M_lim - 1) + LogDt
    /\ At(Predict(get_params(theta_), params, Masked(ret.y, M_lim - 2, 0), ret.s),
          1, M_lim - 1) # At(ret.logr, 1, M_lim - 1)


\* Every neuron-indexed tensor of theta has the leading dimension N.
ShapesMatch(th, N) ==
    /\ th.w.r = N /\ th.w.c = N
    /\ th.h.r = N /\ th.h.c = dh
    /\ th.k.r = N /\ th.k.c = ds
    /\ th.b.r = N /\ th.b.c = 1

\* C13: whenever control is back with the caller (after construction and
\* after every ll, grad, predict and fit call, growth included), w is
\* N_lim x N_lim, h is N_lim x dh, k is N_lim x ds and b is N_lim x 1 for the
\* current params['N_lim'].
C13_LeadingDimension == ShapesMatch(get_params(theta_), params.N_lim)

\* C13, its case: a fit call that grew the capacity has completed and stored
\* its updated parameters.
C13_Witness ==
    /\ ret.op = "fit"
    /\ ret.err = "none"
    /\ ret.steps > 0
    /\ params.N_lim > ret.N_lim0

\* C14: starting from a capacity N_lim >= 2, a fit call of the basic variant
\* with an input of N_lim + 1 neurons (the scenario 5 -> 10 with 6 neurons,
\* here 2 -> 4 with 3) completes, after which N_lim is doubled and every
\* parameter tensor has the doubled neuron dimension.
C14_GrowthThroughFit ==
    (/\ ret.op = "fit"
     /\ ret.N_lim0 >= 2
     /\ ret.h = ret.N_lim0 + 1
     /\ ret.w <= M_lim) =>
        /\ ret.err = "none"
        /\ iter = ret.iter0 + 1
        /\ params.N_lim = 2 * ret.N_lim0
        /\ ShapesMatch(get_params(theta_), 2 * ret.N_lim0)

\* The last call grew the capacity.
Grew ==
    /\ ret.op \in {"ll", "grad", "predict", "fit"}
    /\ params.N_lim > ret.N_lim0

\* C15: every capacity growth re-initializes the optimizer state from the
\* grown theta: after a call that grew, the state carries no accumulated
\* update but those of the call's own steps after the growth, and a call that
\* took no step leaves exactly opt_init of the grown parameters, which are
\* the old ones on the old block and zero elsewhere.
C15_OptimizerReinit ==
    Grew =>
        /\ theta_.acc = ret.steps
        /\ ret.steps = 0 =>
            /\ theta_ = opt_init(get_params(theta_))
            /\ GrownFrom(get_params(theta_).w, params.N_lim, params.N_lim,
                         ret.th0.w, ret.N_lim0, ret.N_lim0)
            /\ GrownFrom(get_params(theta_).b, params.N_lim, 1,
                         ret.th0.b, ret.N_lim0, 1)

\* C15, its case: the optimizer had accumulated updates from earlier fit
\* calls when a call grew the capacity.
C15_Witness ==
    /\ Grew
    /\ ret.op = "ll"
    /\ ret.acc0 > 0
    /\ theta_.acc = 0


\* Two likelihood values are equal: term by term, the fractions compared by
\* cross multiplication.
ValueEq(a, b) ==
    /\ a.rates = b.rates
    /\ a.ylog = b.ylog
    /\ a.den = b.den
    /\ a.l1[1] * b.l1[2] = b.l1[1] * a.l1[2]
    /\ a.l2[1] * b.l2[2] = b.l2[1] * a.l2[2]

\* The parameters of the real block: the first N neurons.
Block(th, N) ==
    [w |-> SliceCols(SliceRows(th.w, 0, N), 0, N), h |-> SliceRows(th.h, 0, N),
     k |-> SliceRows(th.k, 0, N), b |-> SliceRows(th.b, 0, N)]

\* The value a model of capacity exactly (N, M) computes on the N x M input,
\* with the parameter values of the real block.
ExactValue(N, M) ==
    LlValue(Block(get_params(theta_), N), [params EXCEPT !.N_lim = N, !.M_lim = M],
            M, N, InY(N, M), InS(M), Ones(N, M))

\* The last call was an ll on an input within the capacity, which a model of
\* exactly the input's shape can evaluate too.
LlWithin ==
    /\ ret.op = "ll"
    /\ ret.err = "none"
    /\ ~ret.ind
    /\ ret.h <= params.N_lim
    /\ ret.w <= M_lim
    /\ ret.w >= dh

\* C11: padding invariance: the negative log-likelihood (regularization
\* terms included) of an (N, M) input padded to (N_lim, M_lim) equals the
\* value a model of capacity exactly (N, M) computes on the same input with
\* the same parameter values on the real block.
C11_PaddingInvariance ==
    LlWithin => ValueEq(ret.nll, ExactValue(ret.h, ret.w))


\* C12: construction fails (yielding no model) whenever a required key (ds,
\* dh, dt, N_lim, M_lim, and the regularization weights the likelihood reads)
\* is absent, whenever theta is not supplied, whenever no optimizer is given
\* and whenever the optimizer's name is unknown; no such failure is left to a
\* later ll call.
C12_ConstructionFails ==
    /\ cfg.built = "yes" =>
        /\ RequiredKeys \cup LikelihoodKeys \subseteq cfg.keys
        /\ cfg.theta
        /\ cfg.opt \in KnownOptimizers
    /\ ret.op = "ll" => ret.err # "key"

\* The last call on a conductance-based object met more neurons than its
\* capacity held, so its shape normalizer called for a growth.
GrowthCalledCBEM ==
    /\ cls = "CBEM"
    /\ ret.op \in {"ll", "fit"}
    /\ ret.cerr # "skip"
    /\ ret.h > ret.N_lim0

\* C16: in the conductance-based variant a capacity growth completes without
\* error, N_lim is doubled (once per growth), and each of h, be, bi, ke, ki
\* has N_lim rows: its own rows of before the growth, then rows of zeros.
C16_GrowthCBEM ==
    GrowthCalledCBEM =>
        /\ ret.cerr = "none"
        /\ params.N_lim >= 2 * ret.N_lim0
        /\ params.N_lim >= ret.h
        /\ \A k \in {"h", "be", "bi", "ke", "ki"} :
            GrownFrom(get_params(theta_)[k], params.N_lim, ret.th0[k].c,
                      ret.th0[k], ret.N_lim0, ret.th0[k].c)

\* The last call was a fit on a conductance-based object that returned.
FitReturnedCBEM ==
    /\ cls = "CBEM"
    /\ ret.op = "fit"
    /\ ret.err = "none"

\* C17: the V a conductance-based fit returns (and its caller carries into
\* the next call) is the V passed in advanced by the membrane recurrence,
\* whatever the width of the window; it is never the resting potential set
\* anew.
C17_CarriedPotential ==
    FitReturnedCBEM =>
        /\ ret.V1 = StepV(ret.V0, Col(ret.s, 0))
        /\ carry.V = ret.V1
        /\ carry.V # Rest(params.N_lim)

\* The potentials the likelihood is said to use: column 0 the carried-in V
\* with the history term of ycurr, every later column one step of the
\* recurrence from the column before with the history term of y[:, t-1].
CausalPotentials(y, s, V, ycurr) ==
    <<PlusHist(V, ycurr)>> \o LlRFrom(y, s, PlusHist(V, ycurr), 1)

\* C18: the potentials behind the rates of the conductance-based likelihood
\* are: at column 0 the carried-in V plus -h * ycurr, at every column t >= 1
\* one recurrence step from column t-1 plus -h * y[:, t-1] (so no column
\* reads a spike column at or after its own); started from V = -60 and
\* ycurr = 0 they are those of the reference loop ll_r.
C18_CausalRecurrence ==
    FitReturnedCBEM =>
        /\ ret.rates = CausalPotentials(ret.y, ret.s, ret.V0, ret.ycurr0)
        /\ (ret.V0 = Rest(params.N_lim) /\ \A i \in DOMAIN ret.ycurr0 : ret.ycurr0[i] = 0)
               => ret.rates = LlR(ret.y, ret.s, params.N_lim)

\* The shape normalizer of the last call on a conductance-based object
\* returned, its input within the capacity.
NormalizedCBEM ==
    /\ cls = "CBEM"
    /\ ret.op \in {"ll", "fit"}
    /\ ret.cerr = "none"
    /\ ret.h <= params.N_lim
    /\ ret.w <= params.M_lim

\* C20: for an input of N <= N_lim rows and M <= M_lim columns the
\* conductance-based _check_arrays returns y and indicator of shape
\* (N_lim, M_lim) and s of shape (ds, M_lim), the data on the top-left block,
\* and an indicator that is 1 exactly on the real N x M block and 0 on the
\* padding.
C20_NormalizerCBEM ==
    NormalizedCBEM =>
        /\ IsPadded(ret.y, params.N_lim, params.M_lim, InY(ret.h, ret.w), ret.h, ret.w)
        /\ IsPadded(ret.s, params.ds, params.M_lim, InS(ret.w), params.ds, ret.w)
        /\ IsPadded(ret.indicator, params.N_lim, params.M_lim,
                    Ones(ret.h, ret.w), ret.h, ret.w)

\* The last call evaluated the LNP likelihood and returned.
EvaluatedLNP ==
    /\ cls = "LNP"
    /\ ret.op = "ll"
    /\ ret.err = "none"

\* C19: every non-finite entry of the log-rate (the log of a rate that is
\* zero gives -inf) is exactly zero after the masking, before the sums are
\* taken, and the negative log-likelihood returned is finite: neither NaN
\* nor infinite.
C19_NonFiniteMasked ==
    EvaluatedLNP =>
        /\ \A q \in DOMAIN ret.lograw.v :
              ret.lograw.v[q].k # "fin" => ret.logr.v[q] = Fin(0)
        /\ ret.nll = "fin"

\* The parameters hold, on the block of the capacity of before the last
\* call, the values of before the call (and zero on any block added since).
OldBlockKept ==
    /\ GrownFrom(get_params(theta_).w, params.N_lim, params.N_lim,
                 ret.th0.w, ret.N_lim0, ret.N_lim0)
    /\ GrownFrom(get_params(theta_).h, params.N_lim, dh, ret.th0.h, ret.N_lim0, dh)
    /\ GrownFrom(get_params(theta_).k, params.N_lim, ds, ret.th0.k, ret.N_lim0, ds)
    /\ GrownFrom(get_params(theta_).b, params.N_lim, 1, ret.th0.b, ret.N_lim0, 1)

\* C21: a call that only evaluates (ll, grad, predict), and so runs the
\* shape normalizer and no optimizer step, leaves iter as it was and the
\* parameter values on the existing block as they were: the normalizer's
\* only effects are current_N, current_M and the capacity growth.
C21_NormalizerFrame ==
    ret.op \in {"ll", "grad", "predict"} =>
        /\ iter = ret.iter0
        /\ OldBlockKept

\* The last call was a fit of the streaming controller that handed a window
\* to the likelihood engine.
EngineCalledStream ==
    /\ cls = "GLMJaxSynthetic"
    /\ ret.op = "fit"
    /\ ret.cerr \in {"none", "skip"}
    /\ ~IsNone(ret.y)

\* C22: on every fit call of the streaming controller (offline, growing or
\* sliding window, before or after a capacity growth) the y and the
\* indicator handed to the likelihood engine are (N_lim, M_lim) for the
\* current N_lim and s is (ds, M_lim).
C22_EngineShapes ==
    EngineCalledStream =>
        /\ ret.y.r = params.N_lim /\ ret.y.c = params.M_lim
        /\ ret.indicator.r = params.N_lim /\ ret.indicator.c = params.M_lim
        /\ ret.s.r = params.ds /\ ret.s.c = params.M_lim

\* The last call was a fit with data of more than M_lim columns.
TooWideFit ==
    /\ ret.op = "fit"
    /\ ret.w > params.M_lim

\* C23: a fit call with data wider than M_lim fails, applies no optimizer
\* step and leaves iter as it was, and the parameter values on the block of
\* the capacity of before the call are those of before the call, also when
\* the input has more rows than N_lim (and the capacity was grown before
\* the width was found out).
C23_FailedFitFrame ==
    TooWideFit =>
        /\ ret.err # "none"
        /\ ret.steps = 0
        /\ iter = ret.iter0
        /\ OldBlockKept

\* C23, its case: parameters that earlier fits had updated, then a fit with
\* data too wide and of more rows than the capacity, which grew and then
\* failed on the width.
C23_Witness ==
    /\ TooWideFit
    /\ ret.err = "too_wide"
    /\ ret.acc0 > 0
    /\ ret.h > ret.N_lim0
    /\ params.N_lim > ret.N_lim0

\* The driver's last fit returned and another pass follows it.
LoopPair ==
    /\ cls = "CBEM"
    /\ ~IsNone(data.y)
    /\ ret.op = "fit"
    /\ ret.err = "none"
    /\ iter + 1 < data.y.c

\* The first column of the window of the pass that follows.
NextStart == IF iter + 1 <= Window THEN 0 ELSE iter + 1 - Window

\* The spike vector the next pass needs for the history term of its column
\* 0: the data column just before its window, no spike when the window
\* starts at column 0 (as the reference loop has it).
NeededHistory ==
    IF NextStart = 0 THEN [i \in 0 .. data.y.r - 1 |-> 0]
    ELSE Col(data.y, NextStart - 1)

\* C24: in the conductance-based driver, the spike vector a fit call hands
\* back is the one the next call needs for the history term of its column
\* 0, the data column just before the first column of the next window, for
\* every pair of successive calls, in the growing phase as in the sliding
\* phase.
C24_CarriedSpikes == LoopPair => carry.ycurr = NeededHistory

====
